---- MODULE Spec2Model ----
(***************************************************************************)
(* The lazy paginated query engine of cbc_sdk/endpoint_standard/base.py:   *)
(* the synchronous, offset-paginated Query and the asynchronous, job-based *)
(* EnrichedEventQuery.  One query instance is modelled; the server is the  *)
(* environment and answers every request with any reply of a bounded set.  *)
(***************************************************************************)
EXTENDS Integers, Sequences, FiniteSets, TLC

(***************************************************************************)
(* Bounds of the model.                                                    *)
(***************************************************************************)
\* largest total (totalResults / num_available) a reply reports
MaxTotal == 5
\* _batch_size is drawn from 1..MaxBatch (the default of 100 scaled down;
\* pagination depends on the batch size only relative to the totals)
MaxBatch == 2
\* number of _search iterations started on the instance
MaxCalls == 2

\* largest shard count of a job-status reply
MaxShards == 1
\* number of POSTs to the job-creation endpoint
MaxPosts == 2
\* largest num_available a results reply reports
MaxAvail == 2
\* number of consecutive empty results pages answered to one iteration
MaxEmpty == 2
\* the clock stops at MaxTime milliseconds
MaxTime == 1000
\* a request takes 0 or LatencyMs milliseconds
LatencyMs == 250

\* number of clauses of a filter
MaxClauses == 2
\* number of sort_by calls
MaxSortCalls == 3
\* the requests a Feed may issue
MaxRequests == 2
\* the longest list of IOCs a Report may hold
MaxIocs == 3

\* the start and rows arguments given to _search
StartArgs == {0, 2}
RowsArgs == {0, 1, 3}
\* the arguments given to timeout(), in milliseconds
TimeoutArgs == {0, 100, 500}

Latencies == {0, LatencyMs}

(***************************************************************************)
(* Replies.  A reply field a response omits is Absent; dict.get(key, d)    *)
(* then yields the default d.                                              *)
(***************************************************************************)
Absent == -1

Get(v, default) == IF v = Absent THEN default ELSE v

Max(a, b) == IF a >= b THEN a ELSE b

Min(a, b) == IF a <= b THEN a ELSE b

CeilDiv(a, b) == (a + b - 1) \div b

\* n consecutive rows, the first being row p of the server's result set
RowsFrom(p, n) == [i \in 1..n |-> p + i - 1]

\* the "results" member of a reply: JSON null, absent, or a list of rows
ResultLists(p, b) ==
    {[kind |-> "null", items |-> <<>>], [kind |-> "absent", items |-> <<>>]}
        \cup {[kind |-> "list", items |-> RowsFrom(p, n)] : n \in 0..b}

Totals == {Absent} \cup (0..MaxTotal)

Avails == {Absent} \cup (0..MaxAvail)

VARIABLES
    batch_size,     \* Query._batch_size
    total_results,  \* PaginatedQuery._total_results
    count_valid,    \* PaginatedQuery._count_valid
    gen,            \* the generator object returned by the latest _search call
    calls,          \* number of _search calls made so far
    clamp,          \* the latest count-drift clamp: accumulated count, and
                    \* whether no page has been fetched since
    last,           \* the latest operation on the instance: its outcome, and
                    \* the arguments of a set_rows or set_time_range call
    query_token,    \* EnrichedEventQuery._query_token (Absent: None)
    timeout_ms,     \* EnrichedEventQuery._timeout
    timed_out,      \* EnrichedEventQuery._timed_out
    submit_time,    \* EnrichedEventQuery._submit_time (Absent: not yet set)
    now,            \* the clock, time.time() * 1000
    cpc,            \* position of a running asynchronous _count call
    hist,           \* requests issued so far, and whether a timeout occurred
    obs,            \* the latest status check, and the checks of the running call
    protocol,       \* the class of the instance: "sync" (Query) or "async"
                    \* (EnrichedEventQuery)
    query_builder,  \* Query._query_builder: the clauses added so far
    default_args,   \* EnrichedEventQuery._default_args
    sort,           \* EnrichedEventQuery._sort
    time_range,     \* EnrichedEventQuery._time_range
    body,           \* the body of the latest POST to the job-creation endpoint
    request,        \* the parameters returned by the latest prepare_query call
                    \* made by the caller or by _count
    sort_calls,     \* the sort_by calls made so far
    clone,          \* the query returned by _clone() on the instance, if any
    other,          \* a second generator of the instance, iterated in turns
                    \* with the first
    feed,           \* a Feed object: its _info, and what its latest call did
    report          \* a Report object: its _info, _iocs_v2 and
                    \* _iocs_v2_need_sync, and what its latest call did

svars == <<batch_size, total_results, count_valid, gen, calls, clamp, last>>

avars == <<query_token, timeout_ms, timed_out, submit_time, now, cpc, hist, obs, body>>

\* the configuration of the instance
cvars == <<protocol, query_builder, default_args, sort, time_range, request, sort_calls,
           clone>>

\* the other objects of the program
tvars == <<other, feed, report>>

vars == <<svars, avars, cvars, tvars>>

(***************************************************************************)
(* The filter.  A string is a sequence of characters.  QueryBuilder lives  *)
(* in cbc_sdk.base; it is modelled from its contract: a clause is rendered *)
(* as key:value, a boolean combination as the parenthesized group          *)
(* "(left OP right)", and _collapse() returns None for an empty builder.   *)
(***************************************************************************)
\* the rendering of one clause
Leaf(c) == c.key \o <<":">> \o c.value

RECURSIVE Render(_)
Render(qb) ==
    IF Len(qb) = 1
    THEN Leaf(qb[1])
    ELSE <<"(">> \o Render(SubSeq(qb, 1, Len(qb) - 1)) \o <<" ">>
             \o qb[Len(qb)].op \o <<" ">> \o Leaf(qb[Len(qb)]) \o <<")">>

\* QueryBuilder._collapse()
Collapse(qb) ==
    IF qb = <<>> THEN [none |-> TRUE, text |-> <<>>]
    ELSE [none |-> FALSE, text |-> Render(qb)]

(***************************************************************************)
(* Query.prepare_query, base.py:308-324: the parameters it adds to args.   *)
(***************************************************************************)
\* str.split(sep): the pieces between the separators, empty pieces kept
RECURSIVE Split(_, _)
Split(text, sep) ==
    IF \A i \in 1..Len(text) : text[i] # sep
    THEN <<text>>
    ELSE LET i == CHOOSE j \in 1..Len(text) :
                      text[j] = sep /\ \A k \in 1..(j - 1) : text[k] # sep
         IN  <<SubSeq(text, 1, i - 1)>> \o Split(SubSeq(text, i + 1, Len(text)), sep)

\* str.split(':', 1): at most one split, at the first colon
SplitOnce(text) ==
    IF \A i \in 1..Len(text) : text[i] # ":"
    THEN <<text>>
    ELSE LET i == CHOOSE j \in 1..Len(text) :
                      text[j] = ":" /\ \A k \in 1..(j - 1) : text[k] # ":"
         IN  <<SubSeq(text, 1, i - 1), SubSeq(text, i + 1, Len(text))>>

\* str.strip(ch): every leading and trailing ch removed
RECURSIVE Strip(_, _)
Strip(text, ch) ==
    IF text = <<>> THEN text
    ELSE IF Head(text) = ch THEN Strip(Tail(text), ch)
    ELSE IF text[Len(text)] = ch THEN Strip(SubSeq(text, 1, Len(text) - 1), ch)
    ELSE text

\* request[key] = value
Put(req, k, v) == [x \in (DOMAIN req) \cup {k} |-> IF x = k THEN v ELSE req[x]]

\* lines 313-323: the loop over the tokens of the collapsed filter
RECURSIVE PrepareTokens(_, _)
PrepareTokens(req, tokens) ==
    IF tokens = <<>> THEN req
    ELSE LET kv == SplitOnce(Head(tokens))
         IN  IF Len(kv) # 2
             THEN PrepareTokens(req, Tail(tokens))
             ELSE PrepareTokens(Put(req, Strip(Strip(kv[1], "("), ")"),
                                         Strip(Strip(kv[2], "("), ")")),
                                Tail(tokens))

\* prepare_query(args), lines 308-324
PrepareQueryOf(args, qb) ==
    LET params == Collapse(qb)
    IN  IF params.none THEN args ELSE PrepareTokens(args, Split(params.text, " "))

\* a value no time-range key and no body argument holds
Unset == "<unset>"

\* EnrichedEventQuery.__init__, lines 399 and 404
NoArgs == [rows |-> Absent, has_sort |-> FALSE]

NoTimeRange == [start |-> Unset, end |-> Unset, window |-> Unset]

NoBody == [posted |-> FALSE, keys |-> {}, query |-> Collapse(<<>>), rows |-> Absent,
           sort |-> <<>>, time_range |-> NoTimeRange]

\* _get_query_parameters(), lines 414-419: a copy of _default_args with the
\* collapsed filter as "query"; _default_args["sort"] is the list _sort
GetQueryParameters ==
    [posted |-> TRUE,
     keys |-> {"query"} \cup (IF default_args.rows # Absent THEN {"rows"} ELSE {})
                        \cup (IF default_args.has_sort THEN {"sort"} ELSE {}),
     query |-> Collapse(query_builder),
     rows |-> default_args.rows,
     sort |-> IF default_args.has_sort THEN sort ELSE <<>>,
     time_range |-> NoTimeRange]

(***************************************************************************)
(* The generator of a _search call.  pc: "none" (no call yet),             *)
(* "unstarted" (created, body not entered), "suspended" (at the yield),    *)
(* "done" (returned), "failed" (a page request raised), "error" (the body   *)
(* raised otherwise).  reqs logs the start parameter of every page request *)
(* (Absent: no start parameter), reqrows its rows parameter, yielded the   *)
(* number of rows yielded before it; out is the rows yielded, got the rows *)
(* served by all pages, prev those served before the latest request;       *)
(* raised tells that the transport raised on a page request.               *)
(***************************************************************************)
NewGen(pc, start, rows) ==
    [pc |-> pc, start |-> start, rows |-> rows, current |-> 0, numrows |-> 0,
     argstart |-> Absent, page |-> <<>>, still |-> TRUE,
     reqs |-> <<>>, out |-> <<>>,
     reported |-> Absent, lastkind |-> "none", lastlen |-> 0,
     first_total |-> Absent, faithful |-> TRUE, clamped |-> FALSE,
     empties |-> 0, after_timeout |-> FALSE, polled |-> "none",
     prev |-> <<>>, got |-> <<>>, yielded |-> <<>>, reqrows |-> <<>>,
     raised |-> FALSE]

NoObs ==
    [verdict |-> "none", zero |-> FALSE, less |-> FALSE, late |-> FALSE,
     run |-> "none", waslate |-> FALSE]

\* the latest operation is no set_rows or set_time_range call
NoCall == [start |-> "<no call>", end |-> "<no call>", window |-> "<no call>"]

\* _clone() was not called yet
NoClone == [status |-> "none", shared |-> FALSE, query_builder |-> <<>>, batch_size |-> 0]

NoOp == [args |-> NoCall,
         op |-> "none", kind |-> "none", val |-> 0, reqs |-> 0, after |-> FALSE]

\* no Feed was constructed yet; a key of _info that is missing is Unset
NoFeed ==
    [status |-> "none", info |-> [id |-> Unset, owner |-> Unset, access |-> Unset],
     complete |-> FALSE, url_ok |-> FALSE, reports_ok |-> FALSE, assigned |-> FALSE,
     reqs |-> 0, op |-> "none", kind |-> "none"]

\* no Report was constructed yet
NoReport ==
    [status |-> "none", info |-> [id |-> Unset, iocs_v2 |-> <<>>],
     iocs |-> <<>>, need_sync |-> FALSE, complete |-> FALSE, link_ok |-> FALSE,
     op |-> "none", kind |-> "none"]

\* a configuration call that hands back a copy of the query
ConfigReturnCopy(raised) == IF raised THEN "ApiError" ELSE "copy"

\* lines 412, 431, 460, 488 and 505: `return self`, unless the call raised
ConfigReturn(raised) == IF raised THEN "ApiError" ELSE "self"

Init ==
    /\ batch_size \in 1..MaxBatch
    /\ total_results = 0
    /\ count_valid = FALSE
    /\ gen = NewGen("none", 0, 0)
    /\ calls = 0
    /\ clamp = [acc |-> Absent, fresh |-> FALSE]
    /\ last = NoOp
    /\ query_token = Absent
    /\ timeout_ms = 0
    /\ timed_out = FALSE
    /\ submit_time = Absent
    /\ now = 0
    /\ cpc = "idle"
    /\ hist = [posts |-> 0, status |-> FALSE, results |-> FALSE, timed_out |-> FALSE]
    /\ obs = NoObs
    /\ protocol \in {"sync", "async"}
    /\ query_builder = <<>>
    /\ default_args = NoArgs
    /\ sort = <<>>
    /\ time_range = NoTimeRange
    /\ body = NoBody
    /\ request = <<>>
    /\ sort_calls = <<>>
    /\ clone = NoClone
    /\ other = NewGen("none", 0, 0)
    /\ feed = NoFeed
    /\ report = NoReport

(***************************************************************************)
(* Query._search (synchronous), base.py:339-386.                           *)
(***************************************************************************)
\* line 376: the backend is 1-based
NextStartZeroBased(current) == current

NextStart(current) == current + 1

\* line 385: the count-drift clamp
ClampTotalKeep(total, current) == total

ClampTotal(total, current) == current

\* line 372: `if rows and numrows == rows`
SyncRowsDone(rows, numrows) == rows # 0 /\ numrows = rows

\* a page request, with its start and rows parameters, goes out
Requested(g, startparam, rowsparam) ==
    [g EXCEPT !.reqs = Append(@, startparam), !.reqrows = Append(@, rowsparam),
              !.yielded = Append(@, Len(g.out)), !.prev = g.got]

\* a page request whose failure ends the iteration silently
FetchFailedSwallowed(g) == [g EXCEPT !.pc = "done"]

\* lines 355 and 590: get_object raises; the exception leaves the generator
FetchFailed(g) == [g EXCEPT !.pc = "failed"]

\* lines 342-348: the first entry into the generator body
SyncEnter(g) ==
    [g EXCEPT !.argstart = IF g.start # 0 THEN g.start ELSE Absent,
              !.current = g.start, !.numrows = 0, !.still = TRUE]

\* the end of a loop round without the test of line 381: an empty page
\* below the reported total is followed by another request
SyncAfterForNoEmptyStop(g, total, empty) ==
    LET g1 == [g EXCEPT !.argstart = NextStart(g.current)]
    IN  IF g1.current >= total \/ ~g1.still
        THEN [g |-> [g1 EXCEPT !.pc = "done"], total |-> total]
        ELSE [g |-> [g1 EXCEPT !.pc = "request"], total |-> total]

\* lines 376-386 and the loop test of line 353; pc "request" means the loop
\* goes round and the next page is requested
SyncAfterFor(g, total, empty) ==
    LET g1 == [g EXCEPT !.argstart = NextStart(g.current)]
    IN  IF g1.current >= total
        THEN [g |-> [g1 EXCEPT !.pc = "done"], total |-> total]
        ELSE IF empty
        THEN [g |-> [g1 EXCEPT !.pc = "done", !.clamped = TRUE],
              total |-> ClampTotal(total, g1.current)]
        ELSE IF ~g1.still
        THEN [g |-> [g1 EXCEPT !.pc = "done"], total |-> total]
        ELSE [g |-> [g1 EXCEPT !.pc = "request"], total |-> total]

\* a loop over the page that leaves it after its first row
SyncAfterYieldSkips(g, total) ==
    LET g1 == [g EXCEPT !.current = @ + 1, !.numrows = @ + 1]
    IN  IF SyncRowsDone(g1.rows, g1.numrows)
        THEN SyncAfterFor([g1 EXCEPT !.still = FALSE], total, FALSE)
        ELSE SyncAfterFor(g1, total, FALSE)

\* lines 370-374: the generator is resumed after a yield
SyncAfterYield(g, total) ==
    LET g1 == [g EXCEPT !.current = @ + 1, !.numrows = @ + 1]
        rest == Tail(g.page)
    IN  IF SyncRowsDone(g1.rows, g1.numrows)
        THEN SyncAfterFor([g1 EXCEPT !.still = FALSE], total, FALSE)
        ELSE IF rest # <<>>
        THEN [g |-> [g1 EXCEPT !.page = rest, !.out = Append(@, Head(rest))],
              total |-> total]
        ELSE SyncAfterFor(g1, total, FALSE)

\* the row the 1-based backend serves first for a start parameter
SyncFirstRow(argstart) == IF argstart = Absent THEN 1 ELSE argstart

\* a reply of a server that holds T rows, reports T and serves full pages
FullPage(reply, T, p, b) ==
    /\ reply.total = T
    /\ reply.results.kind = "list"
    /\ Len(reply.results.items) = Min(b, Max(0, T - p + 1))

\* lines 354-369: one page request and its handling up to the first yield
SyncFetch(g, reply, b) ==
    LET total == Get(reply.total, 0)
        T == IF g.reqs = <<>> THEN reply.total ELSE g.first_total
        items == IF reply.results.kind = "list" THEN reply.results.items ELSE <<>>
        g0 == Requested(g, g.argstart, b)
        g1 == [g0 EXCEPT !.got = @ \o items,
                        !.reported = total,
                        !.lastkind = reply.results.kind,
                        !.lastlen = Len(items),
                        !.first_total = T,
                        !.faithful = @ /\ T # Absent
                                       /\ FullPage(reply, T, SyncFirstRow(g.argstart), b)]
    IN  IF reply.results.kind = "null"
        THEN [g |-> [g1 EXCEPT !.pc = "done"], total |-> total]
        ELSE IF items # <<>>
        THEN [g |-> [g1 EXCEPT !.pc = "suspended", !.page = items,
                               !.out = Append(@, Head(items))],
              total |-> total]
        ELSE SyncAfterFor(g1, total, TRUE)

\* the caller obtains a generator: q._search(start, rows); no code of the
\* body runs before the first next()
SyncSearchCall ==
    /\ protocol = "sync"
    /\ calls < MaxCalls
    /\ \E s \in StartArgs, r \in RowsArgs : gen' = NewGen("unstarted", s, r)
    /\ calls' = calls + 1
    /\ last' = [args |-> NoCall,
                op |-> "search", kind |-> "value", val |-> 0, reqs |-> 0, after |-> FALSE]
    /\ UNCHANGED <<batch_size, total_results, count_valid, clamp>>
    /\ UNCHANGED avars
    /\ UNCHANGED <<cvars, tvars>>

\* next() on the generator: the body runs to the next yield or to its end
SyncNext ==
    /\ protocol = "sync"
    /\ gen.pc \in {"unstarted", "suspended"}
    /\ LET r0 == IF gen.pc = "unstarted"
                 THEN [g |-> [SyncEnter(gen) EXCEPT !.pc = "request"],
                       total |-> total_results]
                 ELSE SyncAfterYield(gen, total_results)
       IN  IF r0.g.pc = "request"
           THEN \/ \E reply \in [total : Totals,
                                 results : ResultLists(SyncFirstRow(r0.g.argstart),
                                                       batch_size)] :
                     LET r1 == SyncFetch(r0.g, reply, batch_size)
                     IN  /\ gen' = r1.g
                         /\ total_results' = r1.total
                         /\ count_valid' = TRUE
                         /\ clamp' = IF r1.g.clamped
                                     THEN [acc |-> r1.g.current, fresh |-> TRUE]
                                     ELSE [clamp EXCEPT !.fresh = FALSE]
                         /\ last' = [args |-> NoCall,
                                     op |-> "next", kind |-> r1.g.pc, val |-> 0,
                                     reqs |-> 1, after |-> FALSE]
                \/ /\ gen' = FetchFailed([Requested(r0.g, r0.g.argstart, batch_size)
                                             EXCEPT !.raised = TRUE])
                   /\ total_results' = r0.total
                   /\ last' = [args |-> NoCall, op |-> "next", kind |-> gen'.pc, val |-> 0,
                               reqs |-> 1, after |-> FALSE]
                   /\ UNCHANGED <<count_valid, clamp>>
           ELSE /\ gen' = r0.g
                /\ total_results' = r0.total
                /\ last' = [args |-> NoCall,
                            op |-> "next", kind |-> r0.g.pc, val |-> 0, reqs |-> 0, after |-> FALSE]
                /\ UNCHANGED <<count_valid, clamp>>
    /\ UNCHANGED <<batch_size, calls>>
    /\ UNCHANGED avars
    /\ UNCHANGED <<cvars, tvars>>

(***************************************************************************)
(* Query._count (synchronous), base.py:326-337.                            *)
(***************************************************************************)
\* _count without the test of the cache
CountCachedNever(valid) == FALSE

\* lines 327 and 543: `if self._count_valid: return self._total_results`
CountCached(valid) == valid

\* lines 330-333: the query parameters of the request of _count
CountRequest(qb) == PrepareQueryOf(<<>>, qb)

SyncCount ==
    /\ protocol = "sync"
    /\ IF CountCached(count_valid)
       THEN /\ last' = [args |-> NoCall, op |-> "count", kind |-> "value",
                        val |-> total_results, reqs |-> 0, after |-> FALSE]
            /\ UNCHANGED <<total_results, count_valid, request>>
       ELSE \E t \in Totals :
            /\ request' = CountRequest(query_builder)
            /\ total_results' = Get(t, 0)
            /\ count_valid' = TRUE
            /\ last' = [args |-> NoCall, op |-> "count", kind |-> "value", val |-> Get(t, 0),
                        reqs |-> 1, after |-> FALSE]
    /\ UNCHANGED <<batch_size, gen, calls, clamp>>
    /\ UNCHANGED avars
    /\ UNCHANGED <<protocol, query_builder, default_args, sort, time_range, sort_calls, clone,
                   tvars>>

NextSync == SyncSearchCall \/ SyncNext \/ SyncCount

SpecSync == Init /\ [][NextSync]_vars

(***************************************************************************)
(* Claims about the synchronous query, checked under SpecSync.             *)
(***************************************************************************)
\* C1: a synchronous _search(start=0, rows=0) run to exhaustion against a
\* server that reports a constant total T and serves full pages issues
\* exactly max(1, ceil(T/B)) page requests, the first without a start
\* parameter, the k-th (k >= 2) with start = (k-1)*B + 1, and yields all T
\* rows in order.
C1_FullIteration ==
    (gen.pc = "done" /\ gen.faithful /\ gen.start = 0 /\ gen.rows = 0) =>
        /\ Len(gen.reqs) = Max(1, CeilDiv(gen.first_total, batch_size))
        /\ gen.reqs[1] = Absent
        /\ \A k \in 2..Len(gen.reqs) : gen.reqs[k] = (k - 1) * batch_size + 1
        /\ gen.out = RowsFrom(1, gen.first_total)

\* C1 witness: total 5, batch size 2: three requests (none, 3, 5) that
\* consumed 2, 2 and 1 rows
C1_Witness ==
    /\ gen.pc = "done" /\ gen.faithful /\ gen.start = 0 /\ gen.rows = 0
    /\ gen.first_total = 5 /\ batch_size = 2
    /\ gen.reqs = <<Absent, 3, 5>>
    /\ Len(gen.out) = 5

\* C2 as stated: once a page came back empty below the reported total, every
\* later _count() returns the accumulated count of that iteration.
C2_Original ==
    (clamp.acc # Absent /\ last.op = "count") => last.val = clamp.acc

\* C2 amended: an empty result list below the reported total ends the
\* iteration at once with _total_results clamped to the accumulated count,
\* and every _count() made before another page is fetched on the instance
\* returns that count without a request.
C2_DriftClamp ==
    /\ (gen.lastkind \in {"list", "absent"} /\ gen.lastlen = 0
            /\ gen.current < gen.reported)
         => (gen.pc = "done" /\ gen.clamped)
    /\ gen.clamped => gen.pc = "done"
    /\ clamp.fresh =>
          /\ count_valid
          /\ total_results = clamp.acc
          /\ (last.op = "count" => (last.val = clamp.acc /\ last.reqs = 0))

\* C2 witness: a _count() made after a clamp that lowered the reported total
C2_Witness ==
    /\ clamp.fresh /\ gen.clamped /\ last.op = "count"
    /\ gen.reported > gen.current /\ gen.current > 0
    /\ last.val = gen.current

(***************************************************************************)
(* EnrichedEventQuery (asynchronous), base.py:388-608.  Every request      *)
(* takes a time in Latencies; the clock is read after the reply arrived.   *)
(***************************************************************************)
\* line 547 and line 568: time.sleep(.5)
SleepMs == 500

\* `if self._query_token` / `if not self._query_token`: None is false
Truthy(v) == v # Absent

\* a _count call or a next() on the generator is blocked in its polling or
\* fetching loop: the single caller thread can start nothing else
Busy == cpc # "idle" \/ gen.pc \in {"polling", "fetching"}

\* line 509: raise ApiError("Query already submitted ...")
RaisedOnResubmit == "ApiError"

\* lines 550 and 571: raise TimeoutError(message=...).  The module imports
\* only ApiError and ServerError from cbc_sdk.errors (lines 20 and 26), so
\* the name is Python's built-in TimeoutError, whose constructor takes no
\* keyword argument: evaluating the raise statement raises TypeError.
RaisedOnTimeout == "TypeError"

\* line 596: `for item in results` with results = None
RaisedOnNullResults == "TypeError"

\* lines 532-540 without the test of line 532
StillQueryingVerdictNoZeroCheck(contacted, completed, timeout, elapsed) ==
    IF completed < contacted
    THEN IF timeout # 0 /\ elapsed > timeout THEN "timeout" ELSE "true"
    ELSE "false"

\* lines 532-540: "true" and "false" are the value returned, "timeout" is
\* False returned with _timed_out set
StillQueryingVerdict(contacted, completed, timeout, elapsed) ==
    IF contacted = 0
    THEN "true"
    ELSE IF completed < contacted
    THEN IF timeout # 0 /\ elapsed > timeout THEN "timeout" ELSE "true"
    ELSE "false"

\* lines 515-518: the attributes _submit sets from the reply to its POST,
\* which arrived at time t
SubmitEffect(job, t) == [token |-> job, timed_out |-> FALSE, submit_time |-> t]

\* the job id in the reply to a POST: a fresh id, or none
JobReplies == {Absent, hist.posts + 1}

StatusReplies ==
    [contacted : {Absent} \cup (0..MaxShards), completed : {Absent} \cup (0..MaxShards)]

\* lines 520-540: one call of _still_querying, given the replies and the
\* latencies of its requests; it submits first when no token is held
StillQuerying(job, lp, status, lg) ==
    LET submits == ~Truthy(query_token)
        sub == IF submits
               THEN SubmitEffect(job, now + lp)
               ELSE [token |-> query_token, timed_out |-> timed_out,
                     submit_time |-> submit_time]
        t1 == (IF submits THEN now + lp ELSE now) + lg
        contacted == Get(status.contacted, 0)
        completed == Get(status.completed, 0)
        v == StillQueryingVerdict(contacted, completed, timeout_ms,
                                  t1 - sub.submit_time)
    IN  [token |-> sub.token, submit_time |-> sub.submit_time,
         timed_out |-> (sub.timed_out \/ v = "timeout"),
         now |-> t1, posted |-> submits, verdict |-> v, ret |-> (v = "true"),
         contacted |-> contacted, completed |-> completed,
         late |-> (timeout_ms # 0 /\ t1 - sub.submit_time > timeout_ms)]

\* the attributes and the request history after a call of _still_querying
ApplyStill(r) ==
    /\ query_token' = r.token
    /\ submit_time' = r.submit_time
    /\ timed_out' = r.timed_out
    /\ hist' = [hist EXCEPT !.posts = IF r.posted THEN @ + 1 ELSE @,
                            !.status = TRUE,
                            !.timed_out = @ \/ r.verdict = "timeout"]
    /\ body' = IF r.posted THEN GetQueryParameters ELSE body

ObsAfter(o, r) ==
    [o EXCEPT !.verdict = r.verdict,
              !.zero = (r.contacted = 0), !.less = (r.completed < r.contacted),
              !.late = r.late,
              !.run = IF @ \in {"none", "unfinished"} /\ r.completed < r.contacted
                      THEN "unfinished" ELSE "mixed",
              !.waslate = @ \/ r.late]

\* timeout(msecs), lines 490-505
AsyncSetTimeout ==
    /\ protocol = "async"
    /\ ~Busy
    /\ \E t \in TimeoutArgs : timeout_ms' = t
    /\ last' = [args |-> NoCall,
                op |-> "timeout", kind |-> ConfigReturn(FALSE), val |-> 0, reqs |-> 0,
                after |-> FALSE]
    /\ obs' = NoObs
    /\ UNCHANGED <<batch_size, total_results, count_valid, gen, calls, clamp>>
    /\ UNCHANGED <<query_token, timed_out, submit_time, now, cpc, hist, body>>
    /\ UNCHANGED <<cvars, tvars>>

\* _submit() called by the caller, lines 507-518
AsyncSubmit ==
    /\ protocol = "async"
    /\ ~Busy
    /\ IF Truthy(query_token)
       THEN /\ last' = [args |-> NoCall, op |-> "submit", kind |-> RaisedOnResubmit, val |-> 0,
                        reqs |-> 0, after |-> FALSE]
            /\ UNCHANGED <<query_token, timed_out, submit_time, now, hist, body>>
       ELSE /\ hist.posts < MaxPosts
            /\ \E job \in JobReplies, lp \in Latencies :
                 LET sub == SubmitEffect(job, now + lp)
                 IN  /\ now + lp <= MaxTime
                     /\ now' = now + lp
                     /\ query_token' = sub.token
                     /\ timed_out' = sub.timed_out
                     /\ submit_time' = sub.submit_time
            /\ hist' = [hist EXCEPT !.posts = @ + 1]
            /\ body' = GetQueryParameters
            /\ last' = [args |-> NoCall,
                        op |-> "submit", kind |-> "value", val |-> 0, reqs |-> 1, after |-> FALSE]
    /\ obs' = NoObs
    /\ UNCHANGED <<batch_size, total_results, count_valid, gen, calls, clamp>>
    /\ UNCHANGED <<timeout_ms, cpc>>
    /\ UNCHANGED <<cvars, tvars>>

\* _still_querying() called by the caller, lines 520-540
AsyncStillQuerying ==
    /\ protocol = "async"
    /\ ~Busy
    /\ Truthy(query_token) \/ hist.posts < MaxPosts
    /\ \E job \in (IF Truthy(query_token) THEN {Absent} ELSE JobReplies),
          lp \in (IF Truthy(query_token) THEN {0} ELSE Latencies),
          status \in StatusReplies, lg \in Latencies :
         LET r == StillQuerying(job, lp, status, lg)
         IN  /\ r.now <= MaxTime
             /\ now' = r.now
             /\ ApplyStill(r)
             /\ obs' = ObsAfter(NoObs, r)
             /\ last' = [args |-> NoCall, op |-> "still", kind |-> "value",
                         val |-> IF r.ret THEN 1 ELSE 0,
                         reqs |-> 1, after |-> FALSE]
    /\ UNCHANGED <<batch_size, total_results, count_valid, gen, calls, clamp>>
    /\ UNCHANGED <<timeout_ms, cpc>>
    /\ UNCHANGED <<cvars, tvars>>

\* _count(), lines 542-544, and the entry into its polling loop, line 546
AsyncCount ==
    /\ protocol = "async"
    /\ ~Busy
    /\ IF CountCached(count_valid)
       THEN /\ last' = [args |-> NoCall,
                        op |-> "count", kind |-> "value", val |-> total_results,
                        reqs |-> 0, after |-> hist.timed_out]
            /\ cpc' = cpc
       ELSE /\ last' = [args |-> NoCall,
                        op |-> "count", kind |-> "pending", val |-> 0, reqs |-> 0,
                        after |-> hist.timed_out]
            /\ cpc' = "polling"
    /\ obs' = NoObs
    /\ UNCHANGED <<batch_size, total_results, count_valid, gen, calls, clamp>>
    /\ UNCHANGED <<query_token, timeout_ms, timed_out, submit_time, now, hist, body>>
    /\ UNCHANGED <<cvars, tvars>>

\* lines 549-552 and 570-573 without the test of _timed_out
AfterPollingNoCheck(timedOut) == "fetch"

\* lines 549-552 and 570-573: what follows the polling loop
AfterPolling(timedOut) == IF timedOut THEN "raise" ELSE "fetch"

\* how the polling loop of a call ended, from the last status reply
PollExit(r) ==
    IF r.timed_out THEN "timeout"
    ELSE IF r.completed < r.contacted THEN "unfinished"
    ELSE "done"

\* lines 575-577: the locals of _search once polling is over
AsyncEnter(g) ==
    [g EXCEPT !.current = g.start, !.numrows = 0, !.still = TRUE, !.pc = "fetching"]

\* one round of `while self._still_querying(): time.sleep(.5)` of _count
\* (lines 546-550) or of _search (lines 567-571), with what follows the loop
\* up to the next request
AsyncPoll ==
    /\ protocol = "async"
    /\ cpc = "polling" \/ gen.pc = "polling"
    /\ Truthy(query_token) \/ hist.posts < MaxPosts
    /\ \E job \in (IF Truthy(query_token) THEN {Absent} ELSE JobReplies),
          lp \in (IF Truthy(query_token) THEN {0} ELSE Latencies),
          status \in StatusReplies, lg \in Latencies :
         LET r == StillQuerying(job, lp, status, lg)
             op == IF cpc = "polling" THEN "count" ELSE "next"
             nreq == 1
         IN  /\ ApplyStill(r)
             /\ obs' = ObsAfter(obs, r)
             /\ IF r.ret
                THEN /\ r.now + SleepMs <= MaxTime
                     /\ now' = r.now + SleepMs
                     /\ last' = [args |-> NoCall, op |-> op, kind |-> "pending", val |-> 0,
                                 reqs |-> nreq, after |-> last.after]
                     /\ UNCHANGED <<cpc, gen>>
                ELSE /\ r.now <= MaxTime
                     /\ now' = r.now
                     /\ IF AfterPolling(r.timed_out) = "raise"
                        THEN /\ last' = [args |-> NoCall, op |-> op, kind |-> RaisedOnTimeout,
                                         val |-> 0, reqs |-> nreq, after |-> last.after]
                             /\ cpc' = "idle"
                             /\ gen' = IF op = "next"
                                       THEN [gen EXCEPT !.pc = "error",
                                                        !.polled = PollExit(r)]
                                       ELSE gen
                        ELSE /\ last' = [args |-> NoCall,
                                         op |-> op, kind |-> "pending", val |-> 0,
                                         reqs |-> nreq, after |-> last.after]
                             /\ cpc' = IF op = "count" THEN "fetching" ELSE cpc
                             /\ gen' = IF op = "next"
                                       THEN [AsyncEnter(gen) EXCEPT !.polled = PollExit(r)]
                                       ELSE gen
    /\ UNCHANGED <<batch_size, total_results, count_valid, calls, clamp, timeout_ms>>
    /\ UNCHANGED <<cvars, tvars>>

\* lines 552-561: _count reads num_available from the results endpoint
AsyncCountFetch ==
    /\ protocol = "async"
    /\ cpc = "fetching"
    /\ \E t \in Avails :
         /\ total_results' = Get(t, 0)
         /\ last' = [args |-> NoCall, op |-> "count", kind |-> "value", val |-> Get(t, 0),
                     reqs |-> 1, after |-> last.after]
    /\ count_valid' = TRUE
    /\ cpc' = "idle"
    /\ hist' = [hist EXCEPT !.results = TRUE]
    /\ obs' = obs
    /\ UNCHANGED <<batch_size, gen, calls, clamp>>
    /\ UNCHANGED <<query_token, timeout_ms, timed_out, submit_time, now, body>>
    /\ UNCHANGED <<cvars, tvars>>

\* the caller obtains a generator: q._search(start, rows)
AsyncSearchCall ==
    /\ protocol = "async"
    /\ ~Busy
    /\ calls < MaxCalls
    /\ \E s \in StartArgs, r \in RowsArgs :
         gen' = NewGen("unstarted", s, r)
    /\ calls' = calls + 1
    /\ last' = [args |-> NoCall,
                op |-> "search", kind |-> "value", val |-> 0, reqs |-> 0, after |-> FALSE]
    /\ obs' = NoObs
    /\ UNCHANGED <<batch_size, total_results, count_valid, clamp>>
    /\ UNCHANGED <<query_token, timeout_ms, timed_out, submit_time, now, cpc, hist, body>>
    /\ UNCHANGED <<cvars, tvars>>

\* lines 605-608 and the loop test of line 583
AsyncAfterFor(g, total) ==
    LET g1 == IF g.current >= total THEN [g EXCEPT !.still = FALSE] ELSE g
    IN  [g1 EXCEPT !.pc = IF g1.still THEN "fetching" ELSE "done"]

\* line 601 with the comparison off by one
AsyncRowsDoneLate(rows, numrows) == rows # 0 /\ numrows > rows

\* line 601: `if rows and rows_fetched >= rows`
AsyncRowsDone(rows, numrows) == rows # 0 /\ numrows >= rows

\* lines 598-603: the generator is resumed after a yield
AsyncAfterYield(g, total) ==
    LET g1 == [g EXCEPT !.current = @ + 1, !.numrows = @ + 1]
        rest == Tail(g.page)
    IN  IF AsyncRowsDone(g1.rows, g1.numrows)
        THEN AsyncAfterFor([g1 EXCEPT !.still = FALSE], total)
        ELSE IF rest # <<>>
        THEN [g1 EXCEPT !.page = rest, !.out = Append(@, Head(rest))]
        ELSE AsyncAfterFor(g1, total)

\* the results endpoint is 0-based: start = n asks for row n + 1 onwards
AsyncFirstRow(start) == start + 1

\* the start parameter of a 1-based endpoint
AsyncStartParamOneBased(current) == current + 1

\* lines 584-586: the start parameter of a results-page request
AsyncStartParam(current) == current

\* lines 584-597: one results-page request and its handling up to the first
\* yield; the request carries start = current
AsyncFetchPage(g, reply, b) ==
    LET total == Get(reply.total, 0)
        T == IF g.reqs = <<>> THEN reply.total ELSE g.first_total
        items == IF reply.results.kind = "list" THEN reply.results.items ELSE <<>>
        g0 == Requested(g, AsyncStartParam(g.current), b)
        g1 == [g0 EXCEPT !.got = @ \o items,
                        !.reported = total,
                        !.lastkind = reply.results.kind,
                        !.lastlen = Len(items),
                        !.first_total = T,
                        !.faithful = @ /\ T # Absent
                                       /\ FullPage(reply, T, AsyncFirstRow(g.current), b),
                        !.empties = IF items = <<>> THEN @ + 1 ELSE 0]
    IN  IF reply.results.kind = "null"
        THEN [g1 EXCEPT !.pc = "error"]
        ELSE IF items # <<>>
        THEN [g1 EXCEPT !.pc = "suspended", !.page = items,
                        !.out = Append(@, Head(items))]
        ELSE AsyncAfterFor(g1, total)

\* next() on the generator of _search: from the start, lines 564-565 and the
\* entry into the polling loop; after a yield, lines 598-608
AsyncNext ==
    /\ protocol = "async"
    /\ ~Busy
    /\ gen.pc \in {"unstarted", "suspended"}
    /\ IF gen.pc = "unstarted"
       THEN /\ IF Truthy(query_token)
               THEN /\ UNCHANGED <<query_token, timed_out, submit_time, now, hist, body>>
                    /\ last' = [args |-> NoCall, op |-> "next", kind |-> "pending", val |-> 0,
                                reqs |-> 0, after |-> hist.timed_out]
               ELSE /\ hist.posts < MaxPosts
                    /\ \E job \in JobReplies, lp \in Latencies :
                         LET sub == SubmitEffect(job, now + lp)
                         IN  /\ now + lp <= MaxTime
                             /\ now' = now + lp
                             /\ query_token' = sub.token
                             /\ timed_out' = sub.timed_out
                             /\ submit_time' = sub.submit_time
                    /\ hist' = [hist EXCEPT !.posts = @ + 1]
                    /\ body' = GetQueryParameters
                    /\ last' = [args |-> NoCall, op |-> "next", kind |-> "pending", val |-> 0,
                                reqs |-> 1, after |-> hist.timed_out]
            /\ gen' = [gen EXCEPT !.pc = "polling", !.after_timeout = hist.timed_out]
       ELSE /\ gen' = AsyncAfterYield(gen, total_results)
            /\ last' = [args |-> NoCall, op |-> "next",
                        kind |-> IF gen'.pc = "fetching" THEN "pending" ELSE gen'.pc,
                        val |-> 0, reqs |-> 0, after |-> gen.after_timeout]
            /\ UNCHANGED <<query_token, timed_out, submit_time, now, hist, body>>
    /\ obs' = NoObs
    /\ UNCHANGED <<batch_size, total_results, count_valid, calls, clamp>>
    /\ UNCHANGED <<timeout_ms, cpc>>
    /\ UNCHANGED <<cvars, tvars>>

\* one round of the fetch loop of _search, lines 583-608
AsyncFetch ==
    /\ protocol = "async"
    /\ gen.pc = "fetching"
    /\ gen.empties < MaxEmpty
    /\ \/ \E reply \in [total : Avails,
                        results : ResultLists(AsyncFirstRow(gen.current), batch_size)] :
            /\ gen' = AsyncFetchPage(gen, reply, batch_size)
            /\ total_results' = Get(reply.total, 0)
            /\ last' = [args |-> NoCall, op |-> "next",
                        kind |-> CASE gen'.pc = "fetching" -> "pending"
                                   [] gen'.pc = "error" -> RaisedOnNullResults
                                   [] OTHER -> gen'.pc,
                        val |-> 0, reqs |-> 1, after |-> last.after]
            /\ count_valid' = TRUE
       \/ /\ gen' = FetchFailed([Requested(gen, AsyncStartParam(gen.current), batch_size)
                                    EXCEPT !.raised = TRUE])
          /\ last' = [args |-> NoCall, op |-> "next", kind |-> gen'.pc, val |-> 0, reqs |-> 1,
                      after |-> last.after]
          /\ UNCHANGED <<total_results, count_valid>>
    /\ hist' = [hist EXCEPT !.results = TRUE]
    /\ obs' = obs
    /\ UNCHANGED <<batch_size, calls, clamp>>
    /\ UNCHANGED <<query_token, timeout_ms, timed_out, submit_time, now, cpc, body>>
    /\ UNCHANGED <<cvars, tvars>>

\* a caller that configures the query, counts and iterates
NextAsync ==
    \/ AsyncSetTimeout
    \/ AsyncCount
    \/ AsyncPoll
    \/ AsyncCountFetch
    \/ AsyncSearchCall
    \/ AsyncNext
    \/ AsyncFetch

SpecAsync == Init /\ [][NextAsync]_vars

\* a caller that counts and iterates a query of either class, with no timeout
NextQuery ==
    \/ SyncSearchCall
    \/ SyncNext
    \/ SyncCount
    \/ AsyncCount
    \/ AsyncPoll
    \/ AsyncCountFetch
    \/ AsyncSearchCall
    \/ AsyncNext
    \/ AsyncFetch

SpecQuery == Init /\ [][NextQuery]_vars

\* the job protocol alone: a caller that configures, submits, polls and counts
NextJob ==
    \/ AsyncSetTimeout
    \/ AsyncSubmit
    \/ AsyncStillQuerying
    \/ AsyncCount
    \/ AsyncPoll
    \/ AsyncCountFetch

SpecJob == Init /\ [][NextJob]_vars

(***************************************************************************)
(* The filter builder and Query.prepare_query, base.py:300-324 and         *)
(* 406-412.                                                                *)
(***************************************************************************)
FilterKeys == {<<"a">>, <<"b">>}

\* the values of the clauses: one word, two words, a word in parentheses
FilterValues == {<<"x">>, <<"x", " ", "y">>, <<"(", "x", ")">>}

\* the operators QueryBuilder renders between clauses
AndOp == <<"A", "N", "D">>

OrOp == <<"O", "R">>

\* QueryBuilder.where / and_ / or_: where sets the first clause and fails on
\* a builder that holds one; and_ and or_ append a clause and fail on an
\* empty builder
BuilderAdd(qb, verb, k, v) ==
    IF (verb = "where") # (qb = <<>>)
    THEN [raised |-> TRUE, qb |-> qb]
    ELSE [raised |-> FALSE,
          qb |-> Append(qb, [args |-> NoCall, op |-> CASE verb = "where" -> <<>>
                                      [] verb = "and_" -> AndOp
                                      [] OTHER -> OrOp,
                             key |-> k, value |-> v])]

\* Query.or_ as the class docstring (lines 279-280) describes it
SyncOrAddsAnd(qb, k, v) == BuilderAdd(qb, "and_", k, v)

\* Query.or_, lines 300-306
SyncOr(qb, k, v) == [raised |-> TRUE, qb |-> qb]

\* where, and_ or or_ on a query of class proto whose builder holds qb
FilterEffect(proto, qb, verb, k, v) ==
    IF verb = "or_" /\ proto = "sync" THEN SyncOr(qb, k, v) ELSE BuilderAdd(qb, verb, k, v)

\* where(**kwargs), and_(**kwargs) and or_(**kwargs) on the query; a clone
\* that holds the same builder object sees the clause too
FilterCall ==
    /\ ~Busy
    /\ Len(query_builder) < MaxClauses
    /\ \E verb \in {"where", "and_", "or_"}, k \in FilterKeys, v \in FilterValues :
         LET r == FilterEffect(protocol, query_builder, verb, k, v)
         IN  /\ query_builder' = r.qb
             /\ clone' = IF clone.shared THEN [clone EXCEPT !.query_builder = r.qb]
                          ELSE clone
             /\ last' = [args |-> NoCall,
                         op |-> verb,
                         kind |-> IF verb = "or_" /\ protocol = "async"
                                  THEN ConfigReturn(r.raised)
                                  ELSE IF r.raised THEN "ApiError" ELSE "value",
                         val |-> 0, reqs |-> 0, after |-> FALSE]
    /\ UNCHANGED <<protocol, default_args, sort, time_range, request, sort_calls, tvars>>
    /\ UNCHANGED <<batch_size, total_results, count_valid, gen, calls, clamp>>
    /\ UNCHANGED avars

\* prepare_query({}) on the query
PrepareQuery ==
    /\ ~Busy
    /\ request' = PrepareQueryOf(<<>>, query_builder)
    /\ last' = [args |-> NoCall,
                op |-> "prepare_query", kind |-> "value", val |-> 0, reqs |-> 0,
                after |-> FALSE]
    /\ UNCHANGED <<protocol, query_builder, default_args, sort, time_range, sort_calls, clone,
                   tvars>>
    /\ UNCHANGED <<batch_size, total_results, count_valid, gen, calls, clamp>>
    /\ UNCHANGED avars

NextFilter == FilterCall \/ PrepareQuery

SpecFilter == Init /\ [][NextFilter]_vars

\* a caller that filters a query and counts it
NextCount == FilterCall \/ SyncCount

SpecCount == Init /\ [][NextCount]_vars

(***************************************************************************)
(* Query.__init__ and Query._clone, base.py:282-298.  The clone is a       *)
(* second instance; only its filter and its batch size are followed.       *)
(***************************************************************************)
\* the batch sizes a caller assigns
BatchSizes == 1..MaxBatch

\* a constructor that hands the clone the builder object of its parent
CloneBuilderAliased(qb) == [shared |-> TRUE, qb |-> qb]

\* lines 288-291: the clone gets a QueryBuilder of its own, whose _query is
\* the filter expression the parent holds at that time
CloneBuilder(qb) == [shared |-> FALSE, qb |-> qb]

\* line 296: self.__class__(self._doc_class, self._cb, query=self).  Query's
\* constructor takes query (line 282); EnrichedEventQuery's takes doc_class
\* and cb only (line 394), so the call raises TypeError
CloneOutcome(proto) == IF proto = "async" THEN "TypeError" ELSE "value"

\* _clone(), lines 295-298
CloneEffect(proto, qb, batch) ==
    IF CloneOutcome(proto) # "value"
    THEN [NoClone EXCEPT !.status = "failed"]
    ELSE LET b == CloneBuilder(qb)
         IN  [status |-> "made", shared |-> b.shared, query_builder |-> b.qb,
              batch_size |-> batch]

\* q._clone()
Clone ==
    /\ ~Busy
    /\ clone.status = "none"
    /\ clone' = CloneEffect(protocol, query_builder, batch_size)
    /\ last' = [args |-> NoCall,
                op |-> "clone", kind |-> CloneOutcome(protocol), val |-> 0, reqs |-> 0,
                after |-> FALSE]
    /\ UNCHANGED <<protocol, query_builder, default_args, sort, time_range, request,
                   sort_calls, tvars>>
    /\ UNCHANGED <<batch_size, total_results, count_valid, gen, calls, clamp>>
    /\ UNCHANGED avars

\* where(**kwargs), and_(**kwargs) and or_(**kwargs) on the clone
CloneFilterCall ==
    /\ ~Busy
    /\ clone.status = "made"
    /\ Len(clone.query_builder) < MaxClauses
    /\ \E verb \in {"where", "and_", "or_"}, k \in FilterKeys, v \in FilterValues :
         LET r == FilterEffect(protocol, clone.query_builder, verb, k, v)
         IN  /\ clone' = [clone EXCEPT !.query_builder = r.qb]
             /\ query_builder' = IF clone.shared THEN r.qb ELSE query_builder
             /\ last' = [args |-> NoCall, op |-> "clone." \o verb,
                         kind |-> IF r.raised THEN "ApiError" ELSE "value",
                         val |-> 0, reqs |-> 0, after |-> FALSE]
    /\ UNCHANGED <<protocol, default_args, sort, time_range, request, sort_calls, tvars>>
    /\ UNCHANGED <<batch_size, total_results, count_valid, gen, calls, clamp>>
    /\ UNCHANGED avars

\* the caller assigns _batch_size (lines 287 and 297: a plain attribute) on
\* the query or on its clone
AssignBatchSize ==
    /\ ~Busy
    /\ \E onclone \in BOOLEAN, b \in BatchSizes :
         /\ onclone => clone.status = "made"
         /\ batch_size' = IF onclone THEN batch_size ELSE b
         /\ clone' = IF onclone THEN [clone EXCEPT !.batch_size = b] ELSE clone
         /\ last' = [args |-> NoCall,
                     op |-> IF onclone THEN "clone.batch" ELSE "batch", kind |-> "value",
                     val |-> b, reqs |-> 0, after |-> FALSE]
    /\ UNCHANGED <<protocol, query_builder, default_args, sort, time_range, request,
                   sort_calls, tvars>>
    /\ UNCHANGED <<total_results, count_valid, gen, calls, clamp>>
    /\ UNCHANGED avars

\* the clauses of both queries hold one-word values
PlainValues ==
    /\ \A i \in 1..Len(query_builder') : query_builder'[i].value = <<"x">>
    /\ \A i \in 1..Len(clone'.query_builder) : clone'.query_builder[i].value = <<"x">>

\* a caller that clones a query and goes on filtering both, with one-word
\* values
NextClone ==
    \/ Clone
    \/ FilterCall /\ PlainValues
    \/ CloneFilterCall /\ PlainValues
    \/ AssignBatchSize

SpecClone == Init /\ [][NextClone]_vars

(***************************************************************************)
(* The body arguments of EnrichedEventQuery, base.py:421-488.              *)
(***************************************************************************)
SortKeys == {"ts", "name"}

Directions == {"ASC", "DESC"}

\* arguments of set_time_range: None, the empty string, a timestamp, a
\* window string, and two values that are not strings: the int 5 and the
\* int 0
NoneArg == "<None>"

NotAString == "<int 5>"

ZeroArg == "<int 0>"

TimeArgs == {NoneArg, "", "2020-10-20T20:34:07Z", "-3d", NotAString, ZeroArg}

\* `if start:` and `isinstance(start, str)`
Falsy(v) == v \in {NoneArg, "", ZeroArg}

IsStr(v) == v \notin {NoneArg, NotAString, ZeroArg}

\* sort_by that appends an entry on every call
SortByAppends(srt, key, direction) == Append(srt, [field |-> key, order |-> direction])

\* lines 476-484: the list _sort after sort_by(key, direction)
SortByEffect(srt, key, direction) ==
    IF \E i \in 1..Len(srt) : srt[i].field = key
    THEN [i \in 1..Len(srt) |->
             IF srt[i].field = key THEN [srt[i] EXCEPT !.order = direction] ELSE srt[i]]
    ELSE Append(srt, [field |-> key, order |-> direction])

\* the keys of _time_range
TimeFields == {"start", "end", "window"}

\* set_time_range that drops the other keys when it stores a value
TimeRangeStepExclusive(r, name, v) ==
    IF r.raised \/ Falsy(v) THEN r
    ELSE IF ~IsStr(v) THEN [r EXCEPT !.raised = TRUE]
    ELSE [r EXCEPT !.tr = [NoTimeRange EXCEPT ![name] = v]]

\* lines 448-451, 452-455 and 456-459: one argument of set_time_range
TimeRangeStep(r, name, v) ==
    IF r.raised \/ Falsy(v) THEN r
    ELSE IF ~IsStr(v) THEN [r EXCEPT !.raised = TRUE]
    ELSE [r EXCEPT !.tr = [@ EXCEPT ![name] = v]]

\* lines 448-460
SetTimeRangeEffect(tr, start, end, window) ==
    TimeRangeStep(
        TimeRangeStep(
            TimeRangeStep([raised |-> FALSE, tr |-> tr], "start", start),
            "end", end),
        "window", window)

\* sort_by(key, direction), lines 462-488
SortBy ==
    /\ protocol = "async"
    /\ ~Busy
    /\ Len(sort_calls) < MaxSortCalls
    /\ \E key \in SortKeys, direction \in Directions :
         /\ sort' = SortByEffect(sort, key, direction)
         /\ sort_calls' = Append(sort_calls, [key |-> key, direction |-> direction])
    /\ default_args' = [default_args EXCEPT !.has_sort = TRUE]
    /\ last' = [args |-> NoCall,
                op |-> "sort_by", kind |-> ConfigReturn(FALSE), val |-> 0, reqs |-> 0,
                after |-> FALSE]
    /\ UNCHANGED <<protocol, query_builder, time_range, request, clone, tvars>>
    /\ UNCHANGED <<batch_size, total_results, count_valid, gen, calls, clamp>>
    /\ UNCHANGED avars

\* the arguments given to set_rows: a value that is not an int (n is then
\* of no account), or an int
RowsCallArgs ==
    {[isint |-> FALSE, n |-> 0]} \cup {[isint |-> TRUE, n |-> r] : r \in 0..MaxBatch}

\* set_rows without the test of line 427
SetRowsUnchecked(batch, args, arg) ==
    [raised |-> FALSE, batch |-> arg.n, args |-> [args EXCEPT !.rows = arg.n]]

\* lines 427-430: the batch size and _default_args after set_rows(arg)
SetRowsEffect(batch, args, arg) ==
    IF ~arg.isint
    THEN [raised |-> TRUE, batch |-> batch, args |-> args]
    ELSE [raised |-> FALSE, batch |-> arg.n, args |-> [args EXCEPT !.rows = arg.n]]

\* set_rows(rows), lines 421-431
SetRows ==
    /\ protocol = "async"
    /\ ~Busy
    /\ \E arg \in RowsCallArgs :
         LET r == SetRowsEffect(batch_size, default_args, arg)
         IN  /\ batch_size' = r.batch
             /\ default_args' = r.args
             /\ last' = [args |-> arg, op |-> "set_rows",
                         kind |-> ConfigReturn(r.raised),
                         val |-> IF r.raised THEN 0 ELSE r.batch, reqs |-> 0,
                         after |-> FALSE]
    /\ UNCHANGED <<protocol, query_builder, sort, time_range, request, sort_calls, clone,
                   tvars>>
    /\ UNCHANGED <<total_results, count_valid, gen, calls, clamp>>
    /\ UNCHANGED avars

\* set_time_range(start, end, window), lines 433-460
SetTimeRange ==
    /\ protocol = "async"
    /\ ~Busy
    /\ \E start \in TimeArgs, end \in TimeArgs, window \in TimeArgs :
         LET r == SetTimeRangeEffect(time_range, start, end, window)
         IN  /\ time_range' = r.tr
             /\ last' = [args |-> [start |-> start, end |-> end, window |-> window],
                         op |-> "set_time_range",
                         kind |-> ConfigReturn(r.raised),
                         val |-> 0, reqs |-> 0, after |-> FALSE]
    /\ UNCHANGED <<protocol, query_builder, default_args, sort, request, sort_calls, clone,
                   tvars>>
    /\ UNCHANGED <<batch_size, total_results, count_valid, gen, calls, clamp>>
    /\ UNCHANGED avars

\* a set_time_range call that gives a start only
StartOnly == last'.args.end = NoneArg /\ last'.args.window = NoneArg

\* a caller that sets the body arguments
NextArgs == SortBy \/ SetRows \/ (SetTimeRange /\ StartOnly)

SpecArgs == Init /\ [][NextArgs]_vars

(***************************************************************************)
(* Two generators of one instance, taken from q._search(...) twice and     *)
(* advanced in turns by one caller (as zip(q, q) does).  Both run the code *)
(* of Query._search, base.py:339-386, on the same self.                     *)
(***************************************************************************)
\* the local variables of a generator, without the log of its requests
Locals(g) ==
    [NewGen(g.pc, g.start, g.rows) EXCEPT !.current = g.current, !.numrows = g.numrows,
                                          !.argstart = g.argstart, !.page = g.page,
                                          !.still = g.still]

\* the caller obtains the second generator
OtherSearchCall ==
    /\ protocol = "sync"
    /\ other.pc = "none"
    /\ \E s \in StartArgs, r \in RowsArgs : other' = NewGen("unstarted", s, r)
    /\ last' = [args |-> NoCall, op |-> "other.search", kind |-> "value", val |-> 0,
                reqs |-> 0, after |-> FALSE]
    /\ UNCHANGED <<batch_size, total_results, count_valid, gen, calls, clamp>>
    /\ UNCHANGED avars
    /\ UNCHANGED <<cvars, feed, report>>

\* next() on the second generator
OtherNext ==
    /\ protocol = "sync"
    /\ other.pc \in {"unstarted", "suspended"}
    /\ LET r0 == IF other.pc = "unstarted"
                 THEN [g |-> [SyncEnter(other) EXCEPT !.pc = "request"],
                       total |-> total_results]
                 ELSE SyncAfterYield(other, total_results)
       IN  IF r0.g.pc = "request"
           THEN \/ \E reply \in [total : Totals,
                                 results : ResultLists(SyncFirstRow(r0.g.argstart),
                                                       batch_size)] :
                     LET r1 == SyncFetch(r0.g, reply, batch_size)
                     IN  /\ other' = Locals(r1.g)
                         /\ total_results' = r1.total
                         /\ count_valid' = TRUE
                         /\ clamp' = IF r1.g.clamped
                                     THEN [acc |-> r1.g.current, fresh |-> TRUE]
                                     ELSE [clamp EXCEPT !.fresh = FALSE]
                         /\ last' = [args |-> NoCall, op |-> "other.next",
                                     kind |-> r1.g.pc, val |-> 0, reqs |-> 1,
                                     after |-> FALSE]
                \/ /\ other' = Locals(FetchFailed(r0.g))
                   /\ total_results' = r0.total
                   /\ last' = [args |-> NoCall, op |-> "other.next", kind |-> other'.pc,
                               val |-> 0, reqs |-> 1, after |-> FALSE]
                   /\ UNCHANGED <<count_valid, clamp>>
           ELSE /\ other' = Locals(r0.g)
                /\ total_results' = r0.total
                /\ last' = [args |-> NoCall, op |-> "other.next", kind |-> r0.g.pc,
                            val |-> 0, reqs |-> 0, after |-> FALSE]
                /\ UNCHANGED <<count_valid, clamp>>
    /\ UNCHANGED <<batch_size, gen, calls>>
    /\ UNCHANGED avars
    /\ UNCHANGED <<cvars, feed, report>>

\* one caller, two generators, each taken once; the first one is served
\* full pages of a result set of constant size, the second one is advanced
\* until it has yielded two rows
NextInterleaved ==
    \/ SyncSearchCall /\ calls = 0
    \/ SyncNext /\ gen'.faithful
    \/ OtherSearchCall /\ other'.rows = 0
    \/ OtherNext /\ other.numrows = 0
    \/ SyncCount

SpecInterleaved == Init /\ [][NextInterleaved]_vars

\* a caller that filters a query with one-word values, counts it, and
\* from then on calls or_ between its counts
NextRecount ==
    \/ FilterCall /\ PlainValues /\ (count_valid => last'.op = "or_")
    \/ SyncCount
    \/ AsyncCount
    \/ AsyncPoll
    \/ AsyncCountFetch

SpecRecount == Init /\ [][NextRecount]_vars

\* a caller that sets the number of rows and then iterates the query once
NextRows ==
    \/ hist.posts = 0 /\ SetRows
    \/ AsyncSearchCall /\ calls = 0
    \/ AsyncNext
    \/ AsyncPoll
    \/ AsyncFetch

SpecRows == Init /\ [][NextRows]_vars

\* the query holds one where clause at most, no body argument and no timeout
Pristine ==
    /\ Len(query_builder) <= 1
    /\ sort = <<>>
    /\ default_args = NoArgs
    /\ time_range = NoTimeRange
    /\ timeout_ms = 0

\* a caller that counts an asynchronous query, setting and clearing a
\* timeout and making, besides a where call, one effective configuration
\* call before or after, while no timeout is set
NextReconfig ==
    \/ Pristine /\ FilterCall /\ PlainValues /\ last'.op \in {"where", "or_"}
    \/ Pristine /\ SortBy
    \/ Pristine /\ SetRows /\ batch_size' > 0
    \/ Pristine /\ SetTimeRange /\ StartOnly
    \/ AsyncSetTimeout
    \/ AsyncCount
    \/ AsyncPoll
    \/ AsyncCountFetch

SpecReconfig == Init /\ [][NextReconfig]_vars

\* a caller that sets and resets the time range
NextTimeRange == SetTimeRange \/ SetRows

SpecTimeRange == Init /\ [][NextTimeRange]_vars

\* a caller that gives the query a where clause and body arguments (a
\* positive number of rows among them), and then submits it
NextConfig ==
    \/ hist.posts = 0 /\ query_builder = <<>> /\ FilterCall
    \/ hist.posts = 0 /\ SortBy
    \/ hist.posts = 0 /\ SetRows /\ batch_size' > 0
    \/ hist.posts = 0 /\ SetTimeRange /\ StartOnly
    \/ AsyncSubmit

SpecConfig == Init /\ [][NextConfig]_vars

(***************************************************************************)
(* Feed, threat_intelligence.py:262-612.  A Feed keeps its metadata in the *)
(* dictionary _info; of its keys the model follows id, owner and access,   *)
(* and whether the other required ones are there (complete).  The reports  *)
(* of the feed are followed only as far as whether they validate.          *)
(***************************************************************************)
\* the placeholder of lines 479, 483, 487 and 851
Star == "*"

IdentityKeys == {"id", "owner", "access"}

\* `not self._info.get(key, None)` and `not self.id`
Lacks(info, key) == info[key] \in {Unset, ""}

\* MutableBaseModel.validate(): raises InvalidObjectError when a required
\* field is missing from _info
BaseValidateRaises(info, complete) ==
    ~complete \/ \E k \in DOMAIN info : info[k] = Unset

\* lines 477-504: the _info left by Feed.validate(), and whether it raised
FeedValidateEffect(f) ==
    LET sub == {k \in IdentityKeys : Lacks(f.info, k)}
        starred == [k \in IdentityKeys |-> IF k \in sub THEN Star ELSE f.info[k]]
        restored == [k \in IdentityKeys |-> IF k \in sub THEN Unset ELSE f.info[k]]
    IN  IF BaseValidateRaises(starred, f.complete)
        THEN [raised |-> TRUE, info |-> starred]
        ELSE IF ~Lacks(restored, "access") /\ restored.access \notin {"public", "private"}
        THEN [raised |-> TRUE, info |-> restored]
        ELSE IF ~f.url_ok
        THEN [raised |-> TRUE, info |-> restored]
        ELSE IF ~f.reports_ok
        THEN [raised |-> TRUE, info |-> restored]
        ELSE [raised |-> FALSE, info |-> restored]

\* the feedinfo of a reply of the server to the creation of a feed
ServerFeedInfo == [id : {"f2"}, owner : {"org"}, access : {"public", "private"}]

\* Feed(cb, initial_data=...), lines 269-301
FeedNew ==
    /\ feed.status = "none"
    /\ \E id \in {Unset, "f1"}, owner \in {Unset, "org"},
          access \in {Unset, "private", "secret"},
          complete \in BOOLEAN, url_ok \in BOOLEAN, reports_ok \in BOOLEAN :
          feed' = [status |-> "made",
                   info |-> [id |-> id, owner |-> owner, access |-> access],
                   complete |-> complete, url_ok |-> url_ok, reports_ok |-> reports_ok,
                   assigned |-> id # Unset, reqs |-> 0, op |-> "new", kind |-> "value"]
    /\ UNCHANGED <<svars, avars, cvars, other, report>>

\* validate(), lines 470-504
FeedValidate ==
    /\ feed.status = "made"
    /\ LET r == FeedValidateEffect(feed)
       IN  feed' = [feed EXCEPT !.info = r.info, !.op = "validate",
                                !.kind = IF r.raised THEN "InvalidObjectError"
                                         ELSE "value"]
    /\ UNCHANGED <<svars, avars, cvars, other, report>>

\* save(public), lines 441-468; the POST succeeds or raises
FeedSave ==
    /\ feed.status = "made"
    /\ feed.reqs < MaxRequests
    /\ LET r == FeedValidateEffect(feed)
       IN  IF r.raised
           THEN feed' = [feed EXCEPT !.info = r.info, !.op = "save",
                                     !.kind = "InvalidObjectError"]
           ELSE \/ \E new \in ServerFeedInfo :
                     feed' = [feed EXCEPT !.info = new, !.assigned = TRUE,
                                          !.reports_ok = TRUE,
                                          !.reqs = @ + 1, !.op = "save",
                                          !.kind = "value"]
                \/ feed' = [feed EXCEPT !.info = r.info, !.reqs = @ + 1, !.op = "save",
                                        !.kind = "ServerError"]
    /\ UNCHANGED <<svars, avars, cvars, other, report>>

\* delete(), lines 506-520
FeedDelete ==
    /\ feed.status = "made"
    /\ feed.reqs < MaxRequests
    /\ IF Lacks(feed.info, "id")
       THEN feed' = [feed EXCEPT !.op = "delete", !.kind = "InvalidObjectError"]
       ELSE feed' = [feed EXCEPT !.reqs = @ + 1, !.op = "delete", !.kind = "value"]
    /\ UNCHANGED <<svars, avars, cvars, other, report>>

\* update(**kwargs), lines 522-553, called with no argument or with access;
\* the server echoes the metadata it was sent
FeedUpdate ==
    /\ feed.status = "made"
    /\ feed.reqs < MaxRequests
    /\ IF Lacks(feed.info, "id")
       THEN feed' = [feed EXCEPT !.op = "update", !.kind = "InvalidObjectError"]
       ELSE \E access \in {Unset, "public", "secret"} :
              LET given == IF access # Unset /\ feed.info.access # Unset
                           THEN [feed EXCEPT !.info.access = access]
                           ELSE feed
                  r == FeedValidateEffect(given)
              IN  IF r.raised
                  THEN feed' = [given EXCEPT !.info = r.info, !.op = "update",
                                             !.kind = "InvalidObjectError"]
                  ELSE feed' = [given EXCEPT !.info = r.info, !.reqs = @ + 1,
                                             !.op = "update", !.kind = "value"]
    /\ UNCHANGED <<svars, avars, cvars, other, report>>

\* lines 573-584: _overwrite_reports(reports); ok tells whether every report
\* given validates
OverwriteReports(f, op, ok, all_ok) ==
    IF ~ok
    THEN [f EXCEPT !.op = op, !.kind = "InvalidObjectError"]
    ELSE [f EXCEPT !.reports_ok = all_ok, !.reqs = @ + 1, !.op = op, !.kind = "value"]

\* replace_reports(reports), lines 586-598
FeedReplaceReports ==
    /\ feed.status = "made"
    /\ feed.reqs < MaxRequests
    /\ IF Lacks(feed.info, "id")
       THEN feed' = [feed EXCEPT !.op = "replace_reports", !.kind = "InvalidObjectError"]
       ELSE \E ok \in BOOLEAN : feed' = OverwriteReports(feed, "replace_reports", ok, ok)
    /\ UNCHANGED <<svars, avars, cvars, other, report>>

\* append_reports(reports), lines 600-612: the reports the feed holds are
\* validated along with the new ones
FeedAppendReports ==
    /\ feed.status = "made"
    /\ feed.reqs < MaxRequests
    /\ IF Lacks(feed.info, "id")
       THEN feed' = [feed EXCEPT !.op = "append_reports", !.kind = "InvalidObjectError"]
       ELSE \E ok \in BOOLEAN :
              feed' = OverwriteReports(feed, "append_reports", feed.reports_ok /\ ok,
                                       feed.reports_ok /\ ok)
    /\ UNCHANGED <<svars, avars, cvars, other, report>>

NextFeed ==
    \/ FeedNew
    \/ FeedValidate
    \/ FeedSave
    \/ FeedDelete
    \/ FeedUpdate
    \/ FeedReplaceReports
    \/ FeedAppendReports

SpecFeed == Init /\ [][NextFeed]_vars

(***************************************************************************)
(* Report, threat_intelligence.py:615-1136.  Of the keys of _info the      *)
(* model follows id and iocs_v2 (a missing iocs_v2 and an empty one are    *)
(* both <<>>: the code tests the key by truth value only).  An IOC_V2      *)
(* object is named by its id; its _info is the dictionary IocInfo.         *)
(***************************************************************************)
IocIds == {"i1", "i2"}

\* the IOC whose link is no URL: its validate() raises (line 1359)
BadIoc == "i2"

\* ioc._info
IocInfo(ioc) == [id |-> ioc]

\* the lists of at most n IOCs
IocLists(n) == UNION {[1..k -> IocIds] : k \in 0..n}

\* [ioc._info for ioc in iocs], lines 863 and 405
InfoOf(iocs) == [i \in DOMAIN iocs |-> IocInfo(iocs[i])]

\* lines 660-664: [IOC_V2(cb, initial_data=ioc, ...) for ioc in self.iocs_v2]
ObjectsOf(dicts) == [i \in DOMAIN dicts |-> dicts[i].id]

\* Report(cb, initial_data=...), lines 635-664
ReportNew ==
    /\ report.status = "none"
    /\ \E id \in {Unset, "r1"}, iocs \in IocLists(MaxIocs - 1),
          complete \in BOOLEAN, link_ok \in BOOLEAN :
          report' = [status |-> "made", info |-> [id |-> id, iocs_v2 |-> InfoOf(iocs)],
                     iocs |-> ObjectsOf(InfoOf(iocs)), need_sync |-> FALSE,
                     complete |-> complete, link_ok |-> link_ok,
                     op |-> "new", kind |-> "value"]
    /\ UNCHANGED <<svars, avars, cvars, other, feed>>

\* Report.create(...).add_ioc(...)...build(), lines 759-795
ReportBuild ==
    /\ report.status = "none"
    /\ \E iocs \in IocLists(MaxIocs - 1), complete \in BOOLEAN, link_ok \in BOOLEAN :
          report' = [status |-> "made", info |-> [id |-> Unset, iocs_v2 |-> <<>>],
                     iocs |-> iocs, need_sync |-> TRUE,
                     complete |-> complete, link_ok |-> link_ok,
                     op |-> "build", kind |-> "value"]
    /\ UNCHANGED <<svars, avars, cvars, other, feed>>

\* lines 1109-1113
AppendIocsEffect(r, iocs) ==
    [r EXCEPT !.iocs = IF r.info.iocs_v2 # <<>> THEN r.iocs \o iocs ELSE iocs,
              !.need_sync = TRUE]

\* lines 1122-1126
RemoveIocsByIdEffect(r, ids) ==
    IF r.info.iocs_v2 # <<>>
    THEN LET kept == SelectSeq(r.iocs, LAMBDA ioc : IocInfo(ioc).id \notin ids)
         IN  [r EXCEPT !.iocs = kept, !.need_sync = Len(r.iocs) > Len(kept)]
    ELSE r

\* lines 849-864: the report left by Report.validate(), and whether it raised
ReportValidateEffect(r) ==
    LET sub == Lacks(r.info, "id")
        starred == [r EXCEPT !.info.id = IF sub THEN Star ELSE @]
        restored == [r EXCEPT !.info.id = IF sub THEN Unset ELSE @]
    IN  IF BaseValidateRaises([id |-> starred.info.id], r.complete)
        THEN [raised |-> TRUE, r |-> starred]
        ELSE IF ~r.link_ok
        THEN [raised |-> TRUE, r |-> restored]
        ELSE IF r.info.iocs_v2 # <<>> /\ \E i \in DOMAIN r.iocs : r.iocs[i] = BadIoc
        THEN [raised |-> TRUE, r |-> restored]
        ELSE IF r.need_sync
        THEN [raised |-> FALSE,
              r |-> [restored EXCEPT !.info.iocs_v2 = InfoOf(r.iocs),
                                     !.need_sync = FALSE]]
        ELSE [raised |-> FALSE, r |-> restored]

\* append_iocs(iocs), lines 1102-1113
AppendIocs ==
    /\ report.status = "made"
    /\ \E iocs \in IocLists(MaxIocs) :
         /\ Len(report.iocs) + Len(iocs) <= MaxIocs
         /\ report' = [AppendIocsEffect(report, iocs) EXCEPT !.op = "append_iocs",
                                                            !.kind = "value"]
    /\ UNCHANGED <<svars, avars, cvars, other, feed>>

\* remove_iocs_by_id(ids_list), lines 1115-1126
RemoveIocsById ==
    /\ report.status = "made"
    /\ \E ids \in SUBSET IocIds :
         report' = [RemoveIocsByIdEffect(report, ids) EXCEPT !.op = "remove_iocs_by_id",
                                                           !.kind = "value"]
    /\ UNCHANGED <<svars, avars, cvars, other, feed>>

\* remove_iocs(iocs), lines 1128-1136
RemoveIocs ==
    /\ report.status = "made"
    /\ \E iocs \in IocLists(MaxIocs - 1) :
         LET ids == {IocInfo(iocs[i]).id : i \in DOMAIN iocs}
             r == IF report.info.iocs_v2 # <<>> THEN RemoveIocsByIdEffect(report, ids)
                  ELSE report
         IN  report' = [r EXCEPT !.op = "remove_iocs", !.kind = "value"]
    /\ UNCHANGED <<svars, avars, cvars, other, feed>>

\* validate(), lines 842-864
ReportValidate ==
    /\ report.status = "made"
    /\ LET v == ReportValidateEffect(report)
       IN  report' = [v.r EXCEPT !.op = "validate",
                                 !.kind = IF v.raised THEN "InvalidObjectError"
                                          ELSE "value"]
    /\ UNCHANGED <<svars, avars, cvars, other, feed>>

NextReport ==
    \/ ReportNew
    \/ ReportBuild
    \/ AppendIocs
    \/ RemoveIocsById
    \/ RemoveIocs
    \/ ReportValidate

SpecReport == Init /\ [][NextReport]_vars

\* a caller that constructs a feed and a report and validates them
NextValidate ==
    \/ FeedNew
    \/ ReportNew
    \/ FeedValidate
    \/ ReportValidate

SpecValidate == Init /\ [][NextValidate]_vars

(***************************************************************************)
(* Claims about the asynchronous query.                                    *)
(***************************************************************************)
\* C3: with a timeout t > 0 and status replies that all report
\* completed < contacted, a _count() call and a _search() iteration keep
\* waiting until the first status check made more than t ms after
\* submission, end there in the timeout failure (TimeoutError), and issue no
\* request to the results endpoint.
C3_TimeoutFailure ==
    (last.op \in {"count", "next"} /\ timeout_ms > 0 /\ obs.run = "unfinished") =>
        /\ cpc # "fetching"
        /\ last.kind # "value"
        /\ last.op = "next" => gen.pc \in {"polling", "error"}
        /\ IF obs.waslate THEN last.kind = "TimeoutError" ELSE last.kind = "pending"

\* C4: with a non-zero timeout, once a status check has been made more than
\* the timeout after submission the polling loop of _count()/_search() has
\* stopped, whatever the status replies were.
C4_PollingStops ==
    (timeout_ms # 0 /\ last.op \in {"count", "next"} /\ obs.waslate) =>
        (cpc # "polling" /\ gen.pc # "polling")

\* C5: an asynchronous _search iteration stops when a results page comes
\* back with an empty list, also while num_available is above the
\* accumulated count: it never goes round the fetch loop without a row.
C5_EmptyPageStops ==
    gen.pc = "fetching" => gen.empties = 0

\* C6: once the instance has timed out, every _count() called later and
\* every _search() iteration started later fails again the way the timed-out
\* call failed (the raise of lines 550 and 571): neither returns a count or
\* yields a row.
C6_TimedOutStaysFailed ==
    (last.after /\ last.op \in {"count", "next"} /\ last.kind # "pending") =>
        last.kind = RaisedOnTimeout

\* C7: once a job has been submitted, the step that sets _timed_out and
\* every step taken while _timed_out is set leave the job token and the
\* submission timestamp unchanged and issue no POST: every later deadline is
\* measured from the original submission.
C7_TimeoutKeepsJob ==
    [][(hist.posts >= 1 /\ (timed_out \/ timed_out')) =>
          (query_token' = query_token /\ submit_time' = submit_time
              /\ hist'.posts = hist.posts)]_vars

\* C8: _submit() on an instance that was submitted before fails with
\* ApiError, issues no POST and leaves the job token unchanged.
C8_ResubmitFails ==
    [][(AsyncSubmit /\ hist.posts > 0) =>
          (last'.kind = "ApiError" /\ hist'.posts = hist.posts
              /\ query_token' = query_token)]_vars

\* C9: at most one job is submitted per instance, for every reply of the
\* job-creation endpoint, and the POST precedes every status and results
\* request.
C9_OneJob ==
    /\ hist.posts <= 1
    /\ (hist.status \/ hist.results) => hist.posts = 1

\* C10 as stated: with no timeout elapsed, _still_querying() returns true
\* exactly for the replies with completed < contacted.
C10_Original ==
    (obs.verdict # "none" /\ ~obs.late) =>
        (IF obs.less THEN obs.verdict = "true" ELSE obs.verdict = "false")

\* C10 amended: with no timeout elapsed, _still_querying() returns true for
\* every reply with contacted = 0 or completed < contacted, and false for
\* every reply with completed >= contacted > 0.
C10_StillQuerying ==
    (obs.verdict # "none" /\ ~obs.late) =>
        (IF obs.zero \/ obs.less THEN obs.verdict = "true" ELSE obs.verdict = "false")

\* C10 witness: a reply with contacted = completed = 0 answered by true
C10_Witness ==
    obs.verdict = "true" /\ obs.zero /\ ~obs.less /\ ~obs.late /\ last.op = "still"

\* C11: a request to the results endpoint, from _count or for any page of
\* _search, is made only by a call whose polling loop ended on a status
\* reply with completed >= contacted while _timed_out was not set; a call
\* whose polls all reported the job unfinished, and a call that timed out,
\* has made no results request.
C11_ResultsAfterDone ==
    /\ cpc = "fetching" => (obs.verdict # "none" /\ ~obs.less /\ ~timed_out)
    /\ (gen.pc = "fetching" \/ gen.reqs # <<>>) => gen.polled = "done"
    /\ gen.pc = "fetching" => ~timed_out
    /\ (last.op \in {"count", "next"} /\ obs.run = "unfinished") =>
          /\ cpc # "fetching"
          /\ last.op = "next" => (gen.pc # "fetching" /\ gen.reqs = <<>>)
    /\ gen.polled = "timeout" => (gen.pc = "error" /\ gen.reqs = <<>>)

\* C11 witness: the second page of a _search iteration has been requested
\* after polls that first reported the job unfinished
C11_Witness ==
    /\ Len(gen.reqs) = 2 /\ gen.polled = "done" /\ hist.results
    /\ timeout_ms > 0 /\ now >= SleepMs

C20_PrepareQuery ==
    (protocol = "sync" /\ last.op = "prepare_query"
        /\ \A i \in 1..Len(query_builder) : query_builder[i].op # OrOp) =>
        /\ DOMAIN request = {query_builder[i].key : i \in 1..Len(query_builder)}
        /\ \A i \in 1..Len(query_builder) :
              request[query_builder[i].key] = query_builder[i].value

(***************************************************************************)
(* Claims about the body arguments.                                        *)
(***************************************************************************)
\* C12: the body POSTed by _submit() holds the composed filter as "query"
\* and every body argument configured before: the sort list if sort_by was
\* called, "rows" if set_rows was called, and a time range with every
\* start/end/window value set_time_range stored.
C12_SubmitBody ==
    [][(hist'.posts # hist.posts) =>
          /\ "query" \in body'.keys /\ body'.query = Collapse(query_builder)
          /\ sort_calls # <<>> => ("sort" \in body'.keys /\ body'.sort = sort)
          /\ default_args.rows # Absent =>
                ("rows" \in body'.keys /\ body'.rows = default_args.rows)
          /\ time_range # NoTimeRange =>
                ("time_range" \in body'.keys /\ body'.time_range = time_range)]_vars

\* the sort_by calls that were the first, and the last, for their key
FirstCalls == {i \in 1..Len(sort_calls) :
                  \A j \in 1..(i - 1) : sort_calls[j].key # sort_calls[i].key}

LastCalls == {i \in 1..Len(sort_calls) :
                 \A j \in (i + 1)..Len(sort_calls) : sort_calls[j].key # sort_calls[i].key}

\* C16: after any sequence of sort_by calls the sort specification holds one
\* entry per distinct key, in the order of the first call for each key, with
\* the direction of the last call for that key.
C16_SortSpec ==
    /\ Len(sort) = Cardinality(FirstCalls)
    /\ \A n \in 1..Len(sort) :
          \E i \in FirstCalls, l \in LastCalls :
             /\ Cardinality({j \in FirstCalls : j <= i}) = n
             /\ sort[n].field = sort_calls[i].key
             /\ sort_calls[l].key = sort_calls[i].key
             /\ sort[n].order = sort_calls[l].direction

\* C16 witness: sort_by("ts", "ASC"), sort_by("name", "ASC"),
\* sort_by("ts", "DESC") leave ts/DESC then name/ASC
C16_Witness ==
    /\ sort_calls = <<[key |-> "ts", direction |-> "ASC"],
                      [key |-> "name", direction |-> "ASC"],
                      [key |-> "ts", direction |-> "DESC"]>>
    /\ sort = <<[field |-> "ts", order |-> "DESC"], [field |-> "name", order |-> "ASC"]>>

(***************************************************************************)
(* Claims about both classes, checked under SpecQuery.                     *)
(***************************************************************************)
\* C13: once a _count() has succeeded the count stays valid, and every
\* further _count() issues no request of any kind and returns the cached
\* total; with no valid cache a synchronous _count() issues exactly one GET.
C13_CountCached ==
    [][/\ ((SyncCount \/ AsyncCount) /\ count_valid) =>
            /\ last'.kind = "value" /\ last'.val = total_results /\ last'.reqs = 0
            /\ hist' = hist /\ now' = now /\ cpc' = cpc
            /\ total_results' = total_results
       /\ (SyncCount /\ ~count_valid) =>
            (last'.kind = "value" /\ last'.reqs = 1 /\ last'.val = total_results')
       /\ (last'.op = "count" /\ last'.kind = "value") => count_valid'
       /\ count_valid => count_valid']_vars

\* C13 witness: an asynchronous _count() answered from the cache that an
\* earlier _count() filled through the job protocol
C13_Witness ==
    /\ protocol = "async" /\ last.op = "count" /\ last.kind = "value"
    /\ last.reqs = 0 /\ last.val = 2 /\ hist.results /\ gen.pc = "none"

\* C14: _search(start, rows = r) with r > 0 never yields more than r rows;
\* once the r-th row has been yielded the iteration ends without another
\* page request, also in the middle of a page; and against a server that
\* reports a constant total T and serves full pages it yields exactly
\* min(r, max(0, T - start)) rows.
C14_RowLimit ==
    [][(gen'.rows > 0 /\ calls' = calls) =>
          /\ Len(gen'.out) <= gen'.rows
          /\ Len(gen.out) = gen.rows =>
                /\ gen'.reqs = gen.reqs /\ gen'.out = gen.out
                /\ gen' # gen => gen'.pc = "done"
          /\ (gen'.pc = "done" /\ gen'.faithful) =>
                Len(gen'.out) = Min(gen'.rows, Max(0, gen'.first_total - gen'.start))]_vars

\* C14 witness: rows = 3 with batch size 2: the iteration has ended after the
\* first row of the second page, one served row left unconsumed
C14_Witness ==
    /\ gen.pc = "done" /\ gen.rows = 3 /\ Len(gen.out) = 3 /\ batch_size = 2
    /\ Len(gen.reqs) = 2 /\ Len(gen.got) = 4 /\ gen.faithful

\* a step in which a page request of the running iteration was answered
PageFetched ==
    /\ calls' = calls
    /\ Len(gen'.reqs) = Len(gen.reqs) + 1
    /\ ~gen'.raised

\* C17 as stated: after every page fetch the cached total is the total that
\* page's response reported, and the count is valid.
C17_Original ==
    [][PageFetched => (count_valid' /\ total_results' = gen'.reported)]_vars

\* C17 amended: after every page fetch the count is valid and the cached
\* total is the total that page's response reported, except that a
\* synchronous fetch of an empty page below the reported total leaves the
\* accumulated count there; the cached total changes in no other step once
\* the count is valid, and a _count() then returns it without a request.
C17_PageTotal ==
    [][/\ PageFetched =>
            /\ count_valid'
            /\ total_results' = IF gen'.clamped THEN gen'.current ELSE gen'.reported
       /\ (count_valid /\ ~PageFetched) => total_results' = total_results
       /\ count_valid => count_valid'
       /\ ((SyncCount \/ AsyncCount) /\ count_valid) =>
            (last'.val = total_results /\ last'.reqs = 0)]_vars

\* C17 witness: a _count() made after the second page of an asynchronous
\* iteration revised num_available returns the revised total
C17_Witness ==
    /\ protocol = "async" /\ last.op = "count" /\ last.reqs = 0
    /\ Len(gen.reqs) = 2 /\ gen.reported = 1 /\ gen.first_total = 2
    /\ last.val = 1

\* C19: when the request for a page fails, every row served by the earlier
\* pages has been yielded, unchanged and in order; the failure is raised by
\* the next() that asked for the first row beyond them, never by the call
\* that created the iteration; and the failed iteration makes no further
\* request.
C19_LazyFailure ==
    [][/\ gen'.raised =>
            /\ gen'.pc = "failed"
            /\ gen'.out = gen'.prev
            /\ gen'.got = gen'.prev
       /\ (~gen.raised /\ gen'.raised) =>
            /\ calls' = calls
            /\ last'.op = "next" /\ last'.kind = "failed"
            /\ gen'.out = gen.out
            /\ Len(gen'.reqs) = Len(gen.reqs) + 1
       /\ (gen.raised /\ calls' = calls) => gen' = gen
       /\ calls' # calls => (gen'.pc = "unstarted" /\ gen'.reqs = <<>>)
       /\ Len(gen'.prev) <= Len(gen'.out)
       /\ \A i \in 1..Len(gen'.prev) : gen'.out[i] = gen'.prev[i]]_vars

\* C19 witness: the request for the second page of an iteration has failed
\* after the two rows of the first page were yielded
C19_Witness ==
    /\ gen.raised /\ gen.pc = "failed" /\ Len(gen.reqs) = 2 /\ gen.out = gen.prev
    /\ Len(gen.out) = 2 /\ last.kind = "failed"

(***************************************************************************)
(* Claims about the pages of the asynchronous _search.                     *)
(***************************************************************************)
\* C18: every results-page request of an asynchronous _search(start, rows)
\* carries start = the caller's start plus the number of rows yielded so
\* far, counted from 0, and rows = the batch size.
C18_PageParams ==
    (protocol = "async") =>
        \A k \in 1..Len(gen.reqs) :
            /\ gen.reqs[k] = gen.start + gen.yielded[k]
            /\ gen.reqrows[k] = batch_size

\* C18 witness: _search(0, 0) with batch size 1 has requested start = 0 and,
\* one row later, start = 1
C18_Witness ==
    /\ protocol = "async" /\ gen.start = 0 /\ batch_size = 1
    /\ gen.reqs = <<0, 1>> /\ gen.reqrows = <<1, 1>> /\ Len(gen.out) = 2

(***************************************************************************)
(* Claims about _clone, checked under SpecClone.                           *)
(***************************************************************************)
\* the calls made on the query, and those made on its clone
ParentOps == {"where", "and_", "or_", "batch"}

CloneOps == {"clone.where", "clone.and_", "clone.or_", "clone.batch"}

\* C21: a clone starts with the filter and the batch size of its parent, and
\* from then on a filter or batch-size change made on one of the two leaves
\* the filter and the batch size of the other unchanged.
C21_CloneIsolated ==
    [][/\ (last'.op = "clone" /\ clone'.status = "made") =>
              /\ clone'.query_builder = query_builder
              /\ clone'.batch_size = batch_size
              /\ query_builder' = query_builder
              /\ batch_size' = batch_size
       /\ (clone.status = "made" /\ last'.op \in ParentOps) =>
              /\ clone'.query_builder = clone.query_builder
              /\ clone'.batch_size = clone.batch_size
       /\ (clone.status = "made" /\ last'.op \in CloneOps) =>
              /\ query_builder' = query_builder
              /\ batch_size' = batch_size]_vars

\* C21 witness: parent and clone have diverged in filter and in batch size
C21_Witness ==
    /\ clone.status = "made"
    /\ Len(query_builder) = 2 /\ Len(clone.query_builder) = 2
    /\ query_builder[1] = clone.query_builder[1]
    /\ query_builder[2] # clone.query_builder[2]
    /\ batch_size # clone.batch_size

\* C30: _clone() succeeds on a query of either class: it returns a query
\* that carries the filter and the batch size of its parent.
C30_CloneSucceeds ==
    last.op = "clone" =>
        /\ last.kind = "value"
        /\ clone.status = "made"
        /\ clone.query_builder = query_builder
        /\ clone.batch_size = batch_size

(***************************************************************************)
(* Claims about set_rows and set_time_range.                               *)
(***************************************************************************)
\* C22: set_rows with an argument that is not an int fails with ApiError and
\* leaves the batch size and the body arguments unchanged; with an int it
\* returns normally and sets the batch size and the body argument "rows" to
\* it, leaving the other body arguments alone.
C22_SetRows ==
    [][last'.op = "set_rows" =>
          IF ~last'.args.isint
          THEN /\ last'.kind = "ApiError"
               /\ batch_size' = batch_size
               /\ default_args' = default_args
          ELSE /\ last'.kind = "self"
               /\ batch_size' = last'.args.n
               /\ default_args' = [default_args EXCEPT !.rows = last'.args.n]]_vars

\* C22 witness: a set_rows call with a non-int failed on a query whose rows
\* had been set to a value other than its first batch size
C22_Witness ==
    /\ last.op = "set_rows" /\ ~last.args.isint /\ last.kind = "ApiError"
    /\ default_args.rows = 2 /\ batch_size = 2 /\ default_args.has_sort

\* C23: a set_time_range call in which a supplied argument is not a string
\* fails with ApiError, and no value that is not a string is ever stored in
\* the time range.
C23_Validated ==
    /\ (last.op = "set_time_range"
           /\ \E f \in TimeFields : last.args[f] # NoneArg /\ ~IsStr(last.args[f]))
         => last.kind = "ApiError"
    /\ \A f \in TimeFields : time_range[f] = Unset \/ IsStr(time_range[f])

\* C24: a set_time_range call changes a key of the time range only to the
\* argument given for that key, leaves the keys it is given no argument for
\* unchanged, and removes no key.
C24_TimeRangeFrame ==
    [][last'.op = "set_time_range" =>
          \A f \in TimeFields :
              /\ time_range[f] # Unset => time_range'[f] # Unset
              /\ time_range'[f] # time_range[f] => time_range'[f] = last'.args[f]
              /\ last'.args[f] = NoneArg => time_range'[f] = time_range[f]]_vars

\* C24 witness: a window was set on a time range that held a start and an
\* end, and both are still there
C24_Witness ==
    /\ last.op = "set_time_range" /\ last.kind = "self"
    /\ last.args = [start |-> NoneArg, end |-> NoneArg, window |-> "-3d"]
    /\ time_range = [start |-> "2020-10-20T20:34:07Z", end |-> "2020-10-20T20:34:07Z",
                     window |-> "-3d"]

(***************************************************************************)
(* Claims about the laziness and the termination of an iteration.          *)
(***************************************************************************)
\* C26 as stated: by the time of its k-th page request an iteration has
\* handed out m rows with k <= floor(m / batch size) + 1.
C26_Original ==
    \A i \in 1..Len(gen.reqs) : i <= (gen.yielded[i] \div gen.reqrows[i]) + 1

\* the rows of every page before the latest request were all handed out
\* before that request went out
TakenBeforeRequest ==
    gen.reqs # <<>> => gen.yielded[Len(gen.reqs)] = Len(gen.prev)

\* every page before the latest request was full
FullSoFar ==
    Len(gen.prev) = (Len(gen.reqs) - 1) * batch_size

\* C26 amended: a page request goes out only during a next() of the
\* consumer and only once every row served by the earlier pages has been
\* handed out; so after m rows at most floor(m / batch size) + 1 requests
\* have been issued as long as every earlier page was full, and a
\* synchronous iteration has issued at most m + 1 in any case.
C26_Lazy ==
    [][/\ gen'.reqs # gen.reqs =>
              \/ gen'.reqs = <<>> /\ last'.op = "search"
              \/ /\ last'.op = "next"
                 /\ Len(gen'.reqs) = Len(gen.reqs) + 1
                 /\ gen.pc \in {"unstarted", "suspended", "fetching"}
       /\ TakenBeforeRequest'
       /\ (gen'.reqs # <<>> /\ FullSoFar') =>
              Len(gen'.reqs) <= (gen'.yielded[Len(gen'.reqs)] \div batch_size) + 1
       /\ (protocol = "sync" /\ gen'.reqs # <<>>) =>
              Len(gen'.reqs) <= gen'.yielded[Len(gen'.reqs)] + 1]_vars

\* C26 witness: the second request of an iteration went out after the two
\* rows of the first, full page were handed out
C26_Witness ==
    /\ batch_size = 2 /\ Len(gen.reqs) = 2 /\ gen.yielded = <<0, 2>>
    /\ gen.pc = "suspended" /\ Len(gen.out) = 3

\* C27: every round of the loop of a synchronous _search either hands out a
\* row or ends the iteration, and an iteration ends only on a failed
\* request, a null list, an empty list, the reported total or the row
\* limit; with totals of at most MaxTotal an iteration from offset start
\* therefore issues at most max(1, MaxTotal - start) page requests.
C27_Finite ==
    [][(protocol = "sync" /\ last'.op = "next") =>
          /\ last'.reqs = 1 =>
                \/ gen'.pc \in {"done", "failed"}
                \/ gen'.pc = "suspended" /\ Len(gen'.out) = Len(gen.out) + 1
          /\ gen'.pc = "done" =>
                \/ gen'.lastkind = "null"
                \/ gen'.lastlen = 0
                \/ gen'.current >= gen'.reported
                \/ SyncRowsDone(gen'.rows, gen'.numrows)
          /\ gen'.pc \in {"suspended", "done", "failed"}
          /\ Len(gen'.reqs) <= Max(1, MaxTotal - gen'.start)]_vars

\* C27 witness: an iteration that took five rounds of one row each
C27_Witness ==
    /\ protocol = "sync" /\ gen.pc = "done" /\ gen.start = 0
    /\ Len(gen.reqs) = 5 /\ Len(gen.out) = 5

\* C28: a synchronous page whose result list is null or absent ends the
\* iteration with no further request and without the count-drift clamp:
\* _total_results stays the total that page reported.
C28_NullOrAbsent ==
    (protocol = "sync" /\ gen.lastkind \in {"null", "absent"}) =>
        /\ gen.pc = "done"
        /\ ~gen.clamped
        /\ total_results = gen.reported

(***************************************************************************)
(* Claims about the request of the synchronous _count, checked under       *)
(* SpecCount.                                                              *)
(***************************************************************************)
\* the name of the rows parameter
RowsKey == <<"r", "o", "w", "s">>

\* C29: the request of a synchronous _count() carries rows = 0 together
\* with one parameter for every key of the filter.
C29_ZeroRows ==
    (protocol = "sync" /\ last.op = "count" /\ last.reqs = 1) =>
        /\ RowsKey \in DOMAIN request
        /\ request[RowsKey] = <<"0">>
        /\ \A i \in 1..Len(query_builder) : query_builder[i].key \in DOMAIN request

(***************************************************************************)
(* Claims about the rows of an iteration.                                  *)
(***************************************************************************)
\* the rows of seq are consecutive rows of the result set
Consecutive(seq) == \A i \in 1..(Len(seq) - 1) : seq[i + 1] = seq[i] + 1

\* C31: against a backend that takes the start parameter as a 1-based row
\* index, the pages of a synchronous _search(start, 0) follow one another
\* without a gap and without an overlap, whatever the start: the rows
\* served, and so the rows handed out, are consecutive rows.
C31_Contiguous ==
    (protocol = "sync" /\ gen.rows = 0) =>
        /\ Consecutive(gen.got)
        /\ Consecutive(gen.out)

(***************************************************************************)
(* Claims about the cached count, checked under SpecRecount.               *)
(***************************************************************************)
\* C32: a _count() that returns its cached total without a request returns
\* a total the server reported for the filter the query holds: the filter
\* of the count request of a synchronous query, and the filter of the job
\* of an asynchronous one, is the filter held at that moment.
C32_CountFresh ==
    (last.op = "count" /\ last.kind = "value" /\ last.reqs = 0) =>
        IF protocol = "sync"
        THEN request = CountRequest(query_builder)
        ELSE body.posted /\ body.query = Collapse(query_builder)

\* line 286: `# max batch_size is 5000`
ServerMaxRows == 5000

\* C34: the rows parameter of every page request of an asynchronous query
\* is an integer between 1 and 5000.
C34_RowsRange ==
    protocol = "async" =>
        \A i \in 1..Len(gen.reqrows) : gen.reqrows[i] \in 1..ServerMaxRows

\* C35: a set_time_range call that raises the usage error leaves the
\* stored time range as it was before the call.
C35_FailureKeeps ==
    [][(last'.op = "set_time_range" /\ last'.kind = "ApiError") =>
           time_range' = time_range]_vars

ConfigOps == {"or_", "sort_by", "set_rows", "set_time_range", "timeout"}

\* C36: a configuration call of an asynchronous query (or_, sort_by,
\* set_rows, set_time_range, timeout) issues no HTTP request, leaves the job
\* token, the submission timestamp, the timed-out flag, the cached total
\* and the count-valid flag unchanged, and, unless it raises, returns the
\* query it was called on.
C36_ConfigFrame ==
    [][(protocol = "async" /\ last'.op \in ConfigOps) =>
           /\ last'.reqs = 0 /\ hist' = hist /\ body' = body
           /\ query_token' = query_token
           /\ submit_time' = submit_time
           /\ timed_out' = timed_out
           /\ total_results' = total_results
           /\ count_valid' = count_valid
           /\ last'.kind \in {"self", "ApiError"}]_vars

\* C36 witness: a configuration call returned on a query whose job had been
\* submitted and whose total was cached
C36_Witness ==
    /\ protocol = "async"
    /\ last.op \in ConfigOps /\ last.kind = "self"
    /\ query_token # Absent /\ submit_time # Absent
    /\ count_valid /\ total_results > 0

\* C37: after a successful validate() the body field iocs_v2 of a report
\* is the body data of the IOCs in its IOC list, in the same order.
C37_IocsInSync ==
    (report.op = "validate" /\ report.kind = "value") =>
        report.info.iocs_v2 = InfoOf(report.iocs)

\* C38: Feed.validate() and Report.validate() leave id, owner and access as
\* they were, present or absent, whether they return or raise.
C38_ValidateFrame ==
    [][/\ (feed'.op = "validate" /\ feed.status = "made") => feed'.info = feed.info
       /\ (report'.op = "validate" /\ report.status = "made") =>
              report'.info.id = report.info.id]_vars

IdOps == {"delete", "update", "replace_reports", "append_reports"}

\* C39: on a feed that was never assigned an id, delete, update,
\* replace_reports and append_reports fail with InvalidObjectError and issue
\* no request.
C39_NoIdNoRequest ==
    [][(feed'.op \in IdOps /\ ~feed'.assigned) =>
           /\ feed'.kind = "InvalidObjectError"
           /\ feed'.reqs = feed.reqs]_vars

\* C33: an iteration that was not cut short by a row limit, a null result
\* list or an empty page ends only when it has accumulated the total
\* reported by the reply to its own latest page request, whatever another
\* iteration or a _count() call on the same instance did in between.
C33_OwnReplies ==
    (/\ protocol = "sync"
     /\ gen.pc = "done"
     /\ gen.rows = 0
     /\ gen.lastkind = "list"
     /\ gen.lastlen > 0) =>
        gen.current >= gen.reported

=============================================================================
